---------------------------- MODULE Spec2Model ----------------------------
(***************************************************************************)
(* A model of gitflow's branch-type workflow engine: the BranchManager     *)
(* classes of gitflow/branches.py and the GitFlow object of                *)
(* gitflow/core.py, on top of a small model of the git repository they     *)
(* drive (commit graph, local heads, remote-tracking refs, tags, index).   *)
(*                                                                         *)
(* Every operation of the program is a pure operator from a repository     *)
(* record to a result record [st, res, log]; the action of the same name   *)
(* applies it to the current state.  res is "ok" or the name of the        *)
(* exception the Python code raises; log lists the backend calls that      *)
(* changed something, in the order the code made them.                     *)
(***************************************************************************)
EXTENDS Integers, Sequences, FiniteSets, TLC

\* ------------------------------------------------------------- bounds
\* commits in the object store
MaxCommits == 4
\* local feature/release/hotfix/support heads alive at the same time
MaxBranches == 2
\* remote-tracking refs (origin/<name>) present in the clone
MaxRemoteRefs == 1
\* things out of the ordinary at the same time: a working tree that is not
\* clean, a remote-tracking ref
MaxDisturbances == 1
\* commands (gitflow's and the user's own git commands) in one session
MaxSteps == 3

\* ------------------------------------------------------ configuration
\* gitflow.branch.master / gitflow.branch.develop defaults
master_name == <<"master">>
develop_name == <<"develop">>
\* gitflow.prefix.versiontag default: the empty string
versiontag_prefix == << >>

Identifiers == {"feature", "release", "hotfix", "support"}

\* DEFAULT_PREFIX of each manager; a name is a sequence of tokens, the
\* prefix is its first token(s), the short name the rest
DEFAULT_PREFIX(id) ==
  CASE id = "feature" -> <<"feature/">>
    [] id = "release" -> <<"release/">>
    [] id = "hotfix"  -> <<"hotfix/">>
    [] id = "support" -> <<"support/">>

\* BranchManager._get_prefix: no explicit prefix, configured value = default
prefix(id) == DEFAULT_PREFIX(id)

\* the settings GitFlow.defaults has a key for
Settings ==
  { "gitflow.branch.master", "gitflow.branch.develop",
    "gitflow.prefix.versiontag", "gitflow.origin",
    "gitflow.prefix.feature", "gitflow.prefix.release",
    "gitflow.prefix.hotfix", "gitflow.prefix.support" }

\* the built-in default of a setting: the values GitFlow.__init__ writes
\* down and the DEFAULT_PREFIX of the managers
builtin_default(s) ==
  CASE s = "gitflow.branch.master" -> "master"
    [] s = "gitflow.branch.develop" -> "develop"
    [] s = "gitflow.prefix.versiontag" -> ""
    [] s = "gitflow.origin" -> "origin"
    [] s = "gitflow.prefix.feature" -> "feature/"
    [] s = "gitflow.prefix.release" -> "release/"
    [] s = "gitflow.prefix.hotfix" -> "hotfix/"
    [] s = "gitflow.prefix.support" -> "support/"

\* short names the user may type
ShortNames == { <<"a">>, <<"a", "b">> }

\* the (identifier, name) pairs the user may type
UserArgs ==
  { <<"feature", <<"a">> >>, <<"feature", <<"a", "b">> >>,
    <<"release", <<"a">> >>, <<"release", <<"a", "b">> >>,
    <<"hotfix", <<"a">> >>, <<"hotfix", <<"a", "b">> >>,
    <<"support", <<"a">> >> }

NamesOf(id) == { n \in ShortNames : <<id, n>> \in UserArgs }

\* the name prefixes the user may type where a prefix is enough; the empty
\* one stands for "the current branch" in name_or_current
NamePrefixes == { << >> } \cup ShortNames

\* BranchManager.full_name
full_name(id, name) == prefix(id) \o name

Names == {master_name, develop_name}
           \cup { full_name(a[1], a[2]) : a \in UserArgs }

\* the names somebody else may have pushed to origin
RemoteNames == { master_name, develop_name, <<"feature/", "a">>,
                 <<"release/", "a">> }

\* the arguments of finish the user may combine: fetch is tried on its own,
\* rebase (a feature's flag) and tagging_info (a release's) are not given
\* together.  by_keyword tells how they are passed: some of them as
\* keyword arguments (finish(name, keep=True)), or all by position
FinishFlags ==
  { f \in [fetch : BOOLEAN, rebase : BOOLEAN, keep : BOOLEAN,
           force_delete : BOOLEAN, push : BOOLEAN, tagging : BOOLEAN,
           by_keyword : BOOLEAN] :
      /\ f.fetch => ~(f.rebase \/ f.keep \/ f.force_delete \/ f.push \/ f.tagging)
      /\ ~(f.rebase /\ f.tagging) }

TagNames == { versiontag_prefix \o n : n \in ShortNames }

\* str.startswith
StartsWith(s, p) == Len(p) <= Len(s) /\ SubSeq(s, 1, Len(p)) = p

\* BranchManager.shorten
shorten(id, full) ==
  IF StartsWith(full, prefix(id))
  THEN SubSeq(full, Len(prefix(id)) + 1, Len(full))
  ELSE full

\* a variant of default_base without the overrides
default_base_develop(id) == develop_name

\* BranchManager.default_base and its overrides (hotfix, support: master)
default_base(id) ==
  IF id \in {"hotfix", "support"} THEN master_name ELSE develop_name

\* --------------------------------------------------------------- state
VARIABLES
  parents,    \* object store: parents[c] = the parents of commit c, in order
  branches,   \* local heads: name -> commit, 0 when the head does not exist
  active,     \* repo.active_branch: the checked-out head
  tags,       \* tags: name -> commit, 0 when the tag does not exist
  rrefs,      \* remote-tracking refs origin/<name> -> commit, 0 when absent
  tracking,   \* the heads that have an upstream (origin/<same name>) configured
  wd,         \* index / working tree: "clean", "dirty" (unstaged), "staged"
  mergehead,  \* commit being merged while a conflict is unresolved, -1 while
              \* a rebase is stopped in a conflict, else 0
  last,       \* the operation that produced this state, and how it ended
  steps,      \* commands run so far
  snapshots,  \* the persisted stack of snapshots, oldest first
  backups,    \* the heads backup/<name>: name -> commit, 0 when absent
  config      \* the repository's gitflow settings: setting -> value

vars == <<parents, branches, active, tags, rrefs, tracking, wd, mergehead,
          last, steps, snapshots, backups, config>>

\* the repository as one record, the argument of every operation
Cur == [parents |-> parents, branches |-> branches, active |-> active,
        tags |-> tags, rrefs |-> rrefs, tracking |-> tracking,
        wd |-> wd, mergehead |-> mergehead]

Commits(st) == 1 .. Len(st.parents)

\* ------------------------------------------------------ git primitives
RECURSIVE Ancestors(_, _)
\* the commits reachable from c, c included
Ancestors(P, c) ==
  IF c = 0 THEN {}
  ELSE {c} \cup UNION { Ancestors(P, P[c][i]) : i \in 1 .. Len(P[c]) }

IsAncestor(st, a, b) == a \in Ancestors(st.parents, b)

\* repo.branches: the names of the local heads
Heads(st) == { n \in Names : st.branches[n] # 0 }

\* git rev-list A...B: the commits reachable from exactly one of the two
SymmetricDiff(st, a, b) ==
  (Ancestors(st.parents, a) \cup Ancestors(st.parents, b))
     \ (Ancestors(st.parents, a) \cap Ancestors(st.parents, b))

Ok(st, log) == [st |-> st, res |-> "ok", log |-> log]
Fail(st, err, log) == [st |-> st, res |-> err, log |-> log]

\* Head.checkout(): git refuses to switch while the index holds unmerged
\* entries, and when local modifications overlap the files that differ
\* between the two tips (overlap is the environment's choice)
CanCheckout(st, b, overlap) ==
  /\ st.mergehead = 0
  /\ \/ st.wd = "clean"
     \/ st.branches[b] = st.branches[st.active]
     \/ ~overlap

Checkout(st, b) == [st EXCEPT !.active = b]


\* the next free commit id
NewCommit(st) == Len(st.parents) + 1

\* a new commit object with the given parents
AddCommit(st, ps) == [st EXCEPT !.parents = Append(st.parents, ps)]

\* --------------------------------------------- GitFlow helpers (core.py)
\* GitFlow.is_merged_into(commit, target): commit is reachable from target
is_merged_into(st, commit, target) == IsAncestor(st, commit, target)

\* GitFlow.require_no_merge_conflict
has_merge_conflict(st) == st.mergehead # 0

\* GitFlow.has_staged_commits
has_staged_commits(st) == st.wd = "staged"

\* GitFlow.origin(): `self.repo.branches[self.origin_name()]` looks the
\* remote's name up among the local heads; no head is called "origin", and
\* IterableList raises IndexError for a missing id
origin(st) == IF <<"origin">> \in Heads(st) THEN "ok" ELSE "IndexError"

\* gitflow.origin().fetch(...) / .push(...): what origin() returns, when it
\* returns, is a Head, which has neither method
origin_call(st) == IF origin(st) = "ok" THEN "AttributeError" ELSE origin(st)

\* GitFlow.compare_branches on two commits: equal tips give 0; for different
\* tips the code reaches `repo.git.merge_base`, where `repo` is unbound
compare_branches(st, c1, c2) ==
  IF c1 = 0 \/ c2 = 0 THEN "NameError"
  ELSE IF c1 = c2 THEN "0" ELSE "NameError"

\* GitFlow.require_branches_equal: returns only on status 0
require_branches_equal(st, c1, c2) ==
  IF compare_branches(st, c1, c2) = "0" THEN "ok" ELSE compare_branches(st, c1, c2)

\* GitFlow.must_be_uptodate(branch, fetch): when the remote counterpart of
\* the branch is known, optionally fetch it, then require both to be equal
must_be_uptodate(st, b, fetch) ==
  IF st.rrefs[b] = 0 THEN "ok"
  ELSE IF fetch THEN origin_call(st)
  ELSE require_branches_equal(st, st.branches[b], st.rrefs[b])

\* GitFlow.tag(name, commit, **info): creates the tag; a tag left by an
\* earlier attempt is skipped
tag(st, t, c) ==
  IF st.tags[t] # 0 THEN st ELSE [st EXCEPT !.tags[t] = c]

\* -------------------------------------------------- BranchManager.iter
\* the local heads whose name starts with the manager's prefix
list(st, id) == { n \in Heads(st) : StartsWith(n, prefix(id)) }

\* a variant of BranchManager.create that removes the new head again when
\* its checkout is refused
create_generic_rollback(st, id, name, base, fetch, must_be_on_default_base, env) ==
  LET full == full_name(id, name)
      db == default_base(id)
      dbtip == st.branches[db]
      base1 == IF base = 0 THEN dbtip ELSE base
      remote == st.rrefs[full]
      base2 == IF remote # 0 THEN remote ELSE base1
      made == [st EXCEPT !.branches[full] = base2]
      out == Checkout(made, full)
      tracked == IF remote # 0
                 THEN [out EXCEPT !.tracking = @ \cup {full}]
                 ELSE out
  IN
  IF st.branches[full] # 0 THEN Fail(st, "BranchExistsError", << >>)
  ELSE IF has_merge_conflict(st) THEN Fail(st, "MergeConflict", << >>)
  ELSE IF has_staged_commits(st) THEN Fail(st, "WorkdirIsDirtyError", << >>)
  ELSE IF fetch THEN Fail(st, origin_call(st), << >>)
  ELSE IF st.rrefs[db] # 0
          /\ require_branches_equal(st, st.rrefs[db], dbtip) # "ok"
       THEN Fail(st, require_branches_equal(st, st.rrefs[db], dbtip), << >>)
  ELSE IF base # 0 /\ must_be_on_default_base
          /\ ~is_merged_into(st, base, dbtip)
       THEN Fail(st, "BaseNotOnBranch", << >>)
  ELSE IF remote # 0 /\ ~is_merged_into(st, base1, remote)
       THEN Fail(st, "BaseNotOnBranch", << >>)
  ELSE IF ~CanCheckout(made, full, env.overlap)
       THEN Fail(st, "GitCommandError", << >>)
  ELSE Ok(tracked, <<"create_head", "checkout">>)

\* ------------------------------------------------ BranchManager.create
\* base = 0 stands for None.  env is what the content of the files decides:
\* env.overlap (local modifications overlap the files a checkout or merge
\* touches), env.conflicts (the targets a merge of diverged tips conflicts
\* on), env.rebase_conflict
create_generic(st, id, name, base, fetch, must_be_on_default_base, env) ==
  LET full == full_name(id, name)
      db == default_base(id)
      dbtip == st.branches[db]
      base1 == IF base = 0 THEN dbtip ELSE base
      remote == st.rrefs[full]
      base2 == IF remote # 0 THEN remote ELSE base1
      made == [st EXCEPT !.branches[full] = base2]
      out == Checkout(made, full)
      tracked == IF remote # 0
                 THEN [out EXCEPT !.tracking = @ \cup {full}]
                 ELSE out
  IN
  IF st.branches[full] # 0 THEN Fail(st, "BranchExistsError", << >>)
  ELSE IF has_merge_conflict(st) THEN Fail(st, "MergeConflict", << >>)
  ELSE IF has_staged_commits(st) THEN Fail(st, "WorkdirIsDirtyError", << >>)
  ELSE IF fetch THEN Fail(st, origin_call(st), << >>)
  ELSE IF st.rrefs[db] # 0
          /\ require_branches_equal(st, st.rrefs[db], dbtip) # "ok"
       THEN Fail(st, require_branches_equal(st, st.rrefs[db], dbtip), << >>)
  ELSE IF base # 0 /\ must_be_on_default_base
          /\ ~is_merged_into(st, base, dbtip)
       THEN Fail(st, "BaseNotOnBranch", << >>)
  ELSE IF remote # 0 /\ ~is_merged_into(st, base1, remote)
       THEN Fail(st, "BaseNotOnBranch", << >>)
  ELSE IF ~CanCheckout(made, full, env.overlap)
       THEN Fail(made, "GitCommandError", <<"create_head">>)
  ELSE Ok(tracked, <<"create_head", "checkout">>)

\* variants of FeatureBranchManager.create: one that goes on when the head
\* exists already, one that does not look at the index, one that does not
\* compare develop with origin/develop, one that does not look for a remote
\* branch of the same name
feature_create_local(st, name, base, fetch, env) ==
  LET r == create_generic([st EXCEPT !.rrefs[full_name("feature", name)] = 0],
                          "feature", name, base, fetch, FALSE, env)
  IN [r EXCEPT !.st = [r.st EXCEPT !.rrefs = st.rrefs]]

feature_create_unsynced(st, name, base, fetch, env) ==
  LET r == create_generic([st EXCEPT !.rrefs[develop_name] = 0],
                          "feature", name, base, fetch, FALSE, env)
  IN [r EXCEPT !.st = [r.st EXCEPT !.rrefs = st.rrefs]]

feature_create_over_index(st, name, base, fetch, env) ==
  LET r == create_generic([st EXCEPT !.wd = "clean", !.mergehead = 0],
                          "feature", name, base, fetch, FALSE, env)
  IN [r EXCEPT !.st = [r.st EXCEPT !.wd = st.wd, !.mergehead = st.mergehead]]

feature_create_again(st, name, base, fetch, env) ==
  create_generic([st EXCEPT !.branches[full_name("feature", name)] = 0],
                 "feature", name, base, fetch, FALSE, env)

\* FeatureBranchManager.create
feature_create(st, name, base, fetch, env) ==
  create_generic(st, "feature", name, base, fetch, FALSE, env)

\* variants of ReleaseBranchManager.create: without the check for an active
\* branch of the type, without the check for the version's tag, without the
\* demand that the base is on the default base, and with the check for an
\* active branch off by one
release_create_unchecked(st, id, version, base, fetch, env) ==
  IF st.tags[versiontag_prefix \o version] # 0
  THEN Fail(st, "TagExistsError", << >>)
  ELSE create_generic(st, id, version, base, fetch, TRUE, env)

release_create_untagged(st, id, version, base, fetch, env) ==
  IF Cardinality(list(st, id)) > 0
  THEN Fail(st, "BranchTypeExistsError", <<id>>)
  ELSE create_generic(st, id, version, base, fetch, TRUE, env)

release_create_any_base(st, id, version, base, fetch, env) ==
  IF Cardinality(list(st, id)) > 0
  THEN Fail(st, "BranchTypeExistsError", <<id>>)
  ELSE IF st.tags[versiontag_prefix \o version] # 0
  THEN Fail(st, "TagExistsError", << >>)
  ELSE create_generic(st, id, version, base, fetch, FALSE, env)

release_create_second(st, id, version, base, fetch, env) ==
  IF Cardinality(list(st, id)) > 1
  THEN Fail(st, "BranchTypeExistsError", <<id>>)
  ELSE IF st.tags[versiontag_prefix \o version] # 0
  THEN Fail(st, "TagExistsError", << >>)
  ELSE create_generic(st, id, version, base, fetch, TRUE, env)

\* a variant of ReleaseBranchManager.create in which a hotfix does not look
\* at the tags
release_create_release_tags(st, id, version, base, fetch, env) ==
  IF Cardinality(list(st, id)) > 0
  THEN Fail(st, "BranchTypeExistsError", <<id>>)
  ELSE IF id = "release" /\ st.tags[versiontag_prefix \o version] # 0
  THEN Fail(st, "TagExistsError", << >>)
  ELSE create_generic(st, id, version, base, fetch, TRUE, env)

\* ReleaseBranchManager.create, inherited by HotfixBranchManager; the
\* BranchTypeExistsError carries the identifier
release_create(st, id, version, base, fetch, env) ==
  IF Cardinality(list(st, id)) > 0
  THEN Fail(st, "BranchTypeExistsError", <<id>>)
  ELSE IF st.tags[versiontag_prefix \o version] # 0
  THEN Fail(st, "TagExistsError", << >>)
  ELSE create_generic(st, id, version, base, fetch, TRUE, env)

\* SupportBranchManager.create
support_create(st, name, base, fetch, env) ==
  create_generic(st, "support", name, base, fetch, TRUE, env)

\* GitFlow.create: dispatch on the manager
create(st, id, name, base, fetch, env) ==
  CASE id = "feature" -> feature_create(st, name, base, fetch, env)
    [] id \in {"release", "hotfix"} -> release_create(st, id, name, base, fetch, env)
    [] id = "support" -> support_create(st, name, base, fetch, env)

\* ------------------------------------------------- BranchManager.merge
\* BranchManager._is_single_commit_branch: `rev-list from...to -n 2`
\* prints exactly one commit
is_single_commit_branch(st, from, to) ==
  Cardinality(SymmetricDiff(st, from, to)) = 1

\* git merge stops without doing anything when uncommitted changes overlap
\* the files it updates, and a true merge also when the index is not HEAD
MergeAllowed(st, ff, env) ==
  \/ st.wd = "clean"
  \/ st.wd = "dirty" /\ ~env.overlap
  \/ st.wd = "staged" /\ ff /\ ~env.overlap

\* repo.git.merge(full, no_ff?) with `into` checked out.  Nothing happens
\* when the head already has the commit.  A fast-forward moves the head; a
\* true merge makes a commit with the two tips as parents, or stops in a
\* conflict (possible only for diverged tips, and then the content decides:
\* env.conflicts)
git_merge(st, into, src, no_ff, env) ==
  LET t == st.branches[into]
      ff == IsAncestor(st, t, src) /\ ~no_ff
      diverged == ~IsAncestor(st, t, src) /\ ~IsAncestor(st, src, t)
      c == NewCommit(st)
  IN
  IF IsAncestor(st, src, t) THEN Ok(st, <<"noop">>)
  ELSE IF ~MergeAllowed(st, ff, env)
  THEN Fail(st, "GitCommandError", << >>)
  ELSE IF ff
  THEN Ok([st EXCEPT !.branches[into] = src], <<"ff">>)
  ELSE IF diverged /\ into \in env.conflicts
  THEN Fail([st EXCEPT !.mergehead = src], "GitCommandError", <<"conflict">>)
  ELSE Ok([AddCommit(st, <<t, src>>) EXCEPT !.branches[into] = c],
          <<"merge_commit">>)

\* variants of BranchManager.merge: one that never allows a fast-forward,
\* and one that merges `into` into the branch
merge_no_ff(st, id, name, into, env) ==
  LET full == full_name(id, name)
      s1 == Checkout(st, into)
      src == st.branches[full]
      m == git_merge(s1, into, src, TRUE, env)
  IN
  IF st.branches[into] = 0 THEN Fail(st, "IndexError", << >>)
  ELSE IF ~CanCheckout(st, into, env.overlap)
  THEN Fail(st, "GitCommandError", << >>)
  ELSE IF src = 0 THEN Fail(s1, "BadObjectError", <<"checkout">>)
  ELSE IF is_merged_into(s1, src, s1.branches[into])
  THEN Ok(s1, <<"checkout", "noop">>)
  ELSE [m EXCEPT !.log = <<"checkout">> \o @]

merge_reversed(st, id, name, into, env) ==
  LET full == full_name(id, name)
      s1 == Checkout(st, full)
      src == st.branches[into]
      m == git_merge(s1, full, src,
                     ~is_single_commit_branch(s1, s1.branches[full], src), env)
  IN
  IF st.branches[into] = 0 THEN Fail(st, "IndexError", << >>)
  ELSE IF st.branches[full] = 0 THEN Fail(st, "BadObjectError", << >>)
  ELSE IF ~CanCheckout(st, full, env.overlap)
  THEN Fail(st, "GitCommandError", << >>)
  ELSE IF is_merged_into(s1, src, s1.branches[full])
  THEN Ok(s1, <<"checkout", "noop">>)
  ELSE [m EXCEPT !.log = <<"checkout">> \o @]

\* a variant of BranchManager.merge that looks whether the branch is merged
\* already before it checks `into` out
merge_check_first(st, id, name, into, env) ==
  LET full == full_name(id, name)
      s1 == Checkout(st, into)
      src == st.branches[full]
      m == git_merge(s1, into, src,
                     ~is_single_commit_branch(s1, s1.branches[into], src), env)
  IN
  IF st.branches[into] = 0 THEN Fail(st, "IndexError", << >>)
  ELSE IF src = 0 THEN Fail(st, "BadObjectError", << >>)
  ELSE IF is_merged_into(st, src, st.branches[into])
  THEN Ok(st, <<"noop">>)
  ELSE IF ~CanCheckout(st, into, env.overlap)
  THEN Fail(st, "GitCommandError", << >>)
  ELSE [m EXCEPT !.log = <<"checkout">> \o @]

\* BranchManager.merge(name, into)
merge(st, id, name, into, env) ==
  LET full == full_name(id, name)
      s1 == Checkout(st, into)
      src == st.branches[full]
      m == git_merge(s1, into, src,
                     ~is_single_commit_branch(s1, s1.branches[into], src), env)
  IN
  IF st.branches[into] = 0 THEN Fail(st, "IndexError", << >>)
  ELSE IF ~CanCheckout(st, into, env.overlap)
  THEN Fail(st, "GitCommandError", << >>)
  ELSE IF src = 0 THEN Fail(s1, "BadObjectError", <<"checkout">>)
  ELSE IF is_merged_into(s1, src, s1.branches[into])
  THEN Ok(s1, <<"checkout", "noop">>)
  ELSE [m EXCEPT !.log = <<"checkout">> \o @]

\* ------------------------------------------------ BranchManager.delete
\* git branch -d compares with the upstream when one is configured and
\* known, else with HEAD
FullyMerged(st, full) ==
  IF full \in st.tracking /\ st.rrefs[full] # 0
  THEN IsAncestor(st, st.branches[full], st.rrefs[full])
  ELSE IsAncestor(st, st.branches[full], st.branches[st.active])

\* a variant of delete that always deletes the way git branch -D does
delete_always_forced(st, id, name, force) ==
  LET full == full_name(id, name) IN
  IF st.branches[full] = 0 \/ st.active = full
  THEN Fail(st, "GitCommandError", << >>)
  ELSE Ok([st EXCEPT !.branches[full] = 0, !.tracking = @ \ {full}],
          <<"delete">>)

\* repo.delete_head(full, force=force)
delete(st, id, name, force) ==
  LET full == full_name(id, name) IN
  IF st.branches[full] = 0 \/ st.active = full
     \/ (~force /\ ~FullyMerged(st, full))
  THEN Fail(st, "GitCommandError", << >>)
  ELSE Ok([st EXCEPT !.branches[full] = 0, !.tracking = @ \ {full}],
          <<"delete">>)

\* ----------------------------------------------- by_name_prefix, rebase
\* the matches of BranchManager.by_name_prefix
matches(st, id, nameprefix) ==
  { b \in list(st, id) : StartsWith(b, full_name(id, nameprefix)) }

\* a variant of by_name_prefix that settles for one of several matches
by_name_prefix_any(st, id, nameprefix) ==
  IF Cardinality(matches(st, id, nameprefix)) >= 1
  THEN [res |-> "ok", branch |-> CHOOSE b \in matches(st, id, nameprefix) : TRUE]
  ELSE [res |-> "NoSuchBranchError", branch |-> << >>]

\* a variant of by_name_prefix that prefers the head named exactly as asked
by_name_prefix_exact_first(st, id, nameprefix) ==
  IF full_name(id, nameprefix) \in matches(st, id, nameprefix)
  THEN [res |-> "ok", branch |-> full_name(id, nameprefix)]
  ELSE IF Cardinality(matches(st, id, nameprefix)) = 1
  THEN [res |-> "ok", branch |-> CHOOSE b \in matches(st, id, nameprefix) : TRUE]
  ELSE IF Cardinality(matches(st, id, nameprefix)) < 1
  THEN [res |-> "NoSuchBranchError", branch |-> << >>]
  ELSE [res |-> "PrefixNotUniqueError", branch |-> << >>]

\* BranchManager.by_name_prefix
by_name_prefix(st, id, nameprefix) ==
  IF Cardinality(matches(st, id, nameprefix)) = 1
  THEN [res |-> "ok", branch |-> CHOOSE b \in matches(st, id, nameprefix) : TRUE]
  ELSE IF Cardinality(matches(st, id, nameprefix)) < 1
  THEN [res |-> "NoSuchBranchError", branch |-> << >>]
  ELSE [res |-> "PrefixNotUniqueError", branch |-> << >>]

\* a call of BranchManager.by_name_prefix: the head it returns is the log
find(st, id, nameprefix) ==
  LET r == by_name_prefix(st, id, nameprefix) IN
  IF r.res = "ok" THEN Ok(st, <<r.branch>>) ELSE Fail(st, r.res, << >>)

\* a variant of GitFlow.name_or_current that answers with the current
\* branch whatever prefix is given
name_or_current_of_head(st, id, nameprefix) ==
  IF st.mergehead = -1 THEN Fail(st, "TypeError", << >>)
  ELSE IF StartsWith(st.active, prefix(id))
  THEN Ok(st, <<shorten(id, st.active)>>)
  ELSE Fail(st, "NoSuchBranchError", << >>)

\* GitFlow.name_or_current(identifier, prefix).  repo.active_branch raises
\* TypeError while HEAD is detached, which it is while a rebase is stopped
name_or_current(st, id, nameprefix) ==
  LET r == by_name_prefix(st, id, nameprefix) IN
  IF nameprefix = << >>
  THEN IF st.mergehead = -1 THEN Fail(st, "TypeError", << >>)
       ELSE IF StartsWith(st.active, prefix(id))
       THEN Ok(st, <<shorten(id, st.active)>>)
       ELSE Fail(st, "NoSuchBranchError", << >>)
  ELSE IF r.res = "ok" THEN Ok(st, <<shorten(id, r.branch)>>)
  ELSE Fail(st, r.res, << >>)

\* GitFlow.checkout
checkout(st, id, name, env) ==
  LET r == by_name_prefix(st, id, name) IN
  IF r.res # "ok" THEN Fail(st, r.res, << >>)
  ELSE IF ~CanCheckout(st, r.branch, env.overlap)
  THEN Fail(st, "GitCommandError", << >>)
  ELSE Ok(Checkout(st, r.branch), <<"checkout">>)

RECURSIVE AddChain(_, _, _)
\* k new one-parent commits on top of commit `onto`
AddChain(st, onto, k) ==
  IF k = 0 THEN st
  ELSE AddChain(AddCommit(st, <<onto>>), NewCommit(st), k - 1)

\* git rebase <upstream> on the checked-out head: nothing to do when the
\* upstream is already contained; else the head's own non-merge commits are
\* replayed on the upstream's tip, which may stop in a conflict
git_rebase(st, upstream, env) ==
  LET cur == st.branches[st.active]
      up == st.branches[upstream]
      todo == { c \in Ancestors(st.parents, cur) \ Ancestors(st.parents, up) :
                  Len(st.parents[c]) <= 1 }
      k == Cardinality(todo)
      grown == AddChain(st, up, k)
      newtip == IF k = 0 THEN up ELSE Len(grown.parents)
  IN
  IF st.wd # "clean" THEN Fail(st, "GitCommandError", << >>)
  ELSE IF IsAncestor(st, up, cur) THEN Ok(st, << >>)
  ELSE IF k > 0 /\ env.rebase_conflict
  THEN Fail([st EXCEPT !.mergehead = -1], "GitCommandError", <<"conflict">>)
  ELSE Ok([grown EXCEPT !.branches[st.active] = newtip], <<"rebase">>)

\* GitFlow.rebase(identifier, name, interactive=False)
rebase(st, id, name, env) ==
  LET co == checkout(st, id, name, env)
      rb == git_rebase(co.st, default_base(id), env)
  IN
  IF co.res # "ok" THEN co
  ELSE [rb EXCEPT !.log = co.log \o @]

\* ------------------------------------------------------------- finish
\* r, and when r succeeded the step F applied to its state
Then(r, F(_)) ==
  IF r.res # "ok" THEN r
  ELSE LET n == F(r.st) IN [n EXCEPT !.log = r.log \o @]

\* one merge of a finish, logged as <<"merge", into, outcome>>
merge_step(st, id, name, into, env) ==
  LET m == merge(st, id, name, into, env) IN
  [m EXCEPT !.log = << <<"merge", into[1],
                         IF Len(m.log) >= 2 THEN m.log[Len(m.log)] ELSE "refused">> >>]

delete_step(st, id, name, force) ==
  LET d == delete(st, id, name, force) IN
  [d EXCEPT !.log = IF d.res = "ok" THEN << <<"delete">> >> ELSE << >>]

\* gitflow.origin().push(to_push)
push_step(st) == Fail(st, origin_call(st), << >>)

uptodate_step(st, b, fetch) ==
  IF must_be_uptodate(st, b, fetch) = "ok" THEN Ok(st, << >>)
  ELSE Fail(st, must_be_uptodate(st, b, fetch), << >>)

rebase_step(st, id, name, env) ==
  LET r == rebase(st, id, name, env) IN
  [r EXCEPT !.log = IF r.res = "ok" THEN << <<"rebase">> >> ELSE << >>]

\* a variant of FeatureBranchManager.finish that merges into master
feature_finish_into_master(st, name, fetch, do_rebase, keep, force_delete, push, tagging, env) ==
  LET c == merge_step(st, "feature", name, master_name, env)
      d == IF keep THEN c
           ELSE Then(c, LAMBDA s : delete_step(s, "feature", name, force_delete))
  IN
  IF tagging THEN Fail(st, "AssertionError", << >>) ELSE d

\* a variant of FeatureBranchManager.finish that leaves the merge out
feature_finish_no_merge(st, name, fetch, do_rebase, keep, force_delete, push, tagging, env) ==
  IF tagging THEN Fail(st, "AssertionError", << >>)
  ELSE IF st.branches[full_name("feature", name)] = 0
  THEN Fail(st, "BadObjectError", << >>)
  ELSE IF keep THEN Ok(st, << >>)
  ELSE delete_step(Checkout(st, develop_name), "feature", name, TRUE)

\* FeatureBranchManager.finish
feature_finish(st, name, fetch, do_rebase, keep, force_delete, push, tagging, env) ==
  LET full == full_name("feature", name)
      a == Then(uptodate_step(st, full, fetch),
                LAMBDA s : uptodate_step(s, develop_name, fetch))
      b == IF do_rebase
           THEN Then(a, LAMBDA s : rebase_step(s, "feature", name, env))
           ELSE a
      c == Then(b, LAMBDA s : merge_step(s, "feature", name, develop_name, env))
      d == IF keep THEN c
           ELSE Then(c, LAMBDA s : delete_step(s, "feature", name, force_delete))
      e == IF push THEN Then(d, LAMBDA s : push_step(s)) ELSE d
  IN
  IF tagging THEN Fail(st, "AssertionError", << >>) ELSE e

\* gitflow.tag(tagname, master_name, **tagging_info) inside finish
tag_step(st, name) ==
  LET t == versiontag_prefix \o name IN
  Ok(tag(st, t, st.branches[master_name]),
     << <<IF st.tags[t] = 0 THEN "tag" ELSE "tag_skipped">> >>)

\* variants of ReleaseBranchManager.finish: without the merge into develop,
\* with the tag made after both merges, and one that always keeps the branch
release_finish_master_only(st, id, name, fetch, do_rebase, keep, force_delete, push, tagging, env) ==
  LET b == merge_step(st, id, name, master_name, env)
      e == IF keep THEN b
           ELSE Then(b, LAMBDA s : delete_step(s, id, name, TRUE))
  IN
  IF do_rebase THEN Fail(st, "AssertionError", << >>) ELSE e

release_finish_tag_last(st, id, name, fetch, do_rebase, keep, force_delete, push, tagging, env) ==
  LET b == merge_step(st, id, name, master_name, env)
      d == Then(b, LAMBDA s : merge_step(s, id, name, develop_name, env))
      c == IF tagging THEN Then(d, LAMBDA s : tag_step(s, name)) ELSE d
      e == IF keep THEN c
           ELSE Then(c, LAMBDA s : delete_step(s, id, name, force_delete))
  IN
  IF do_rebase THEN Fail(st, "AssertionError", << >>) ELSE e

release_finish_keeping(st, id, name, fetch, do_rebase, keep, force_delete, push, tagging, env) ==
  LET b == merge_step(st, id, name, master_name, env)
      d == Then(b, LAMBDA s : merge_step(s, id, name, develop_name, env))
  IN
  IF do_rebase THEN Fail(st, "AssertionError", << >>) ELSE d

\* a variant of ReleaseBranchManager.finish that undoes what it did when a
\* step fails
release_finish_rollback(st, id, name, fetch, do_rebase, keep, force_delete, push, tagging, env) ==
  LET b == merge_step(st, id, name, master_name, env)
      c == IF tagging THEN Then(b, LAMBDA s : tag_step(s, name)) ELSE b
      d == Then(c, LAMBDA s : merge_step(s, id, name, develop_name, env))
      e == IF keep THEN d
           ELSE Then(d, LAMBDA s : delete_step(s, id, name, force_delete))
  IN
  IF do_rebase THEN Fail(st, "AssertionError", << >>)
  ELSE IF e.res # "ok" THEN Fail(st, e.res, e.log)
  ELSE e

\* a variant of ReleaseBranchManager.finish that fails on a tag that exists
release_finish_tag_strict(st, id, name, fetch, do_rebase, keep, force_delete, push, tagging, env) ==
  LET b == merge_step(st, id, name, master_name, env)
      c == IF tagging
           THEN Then(b, LAMBDA s :
                       IF s.tags[versiontag_prefix \o name] # 0
                       THEN Fail(s, "TagExistsError", << >>)
                       ELSE tag_step(s, name))
           ELSE b
      d == Then(c, LAMBDA s : merge_step(s, id, name, develop_name, env))
      e == IF keep THEN d
           ELSE Then(d, LAMBDA s : delete_step(s, id, name, force_delete))
  IN
  IF do_rebase THEN Fail(st, "AssertionError", << >>) ELSE e

\* ReleaseBranchManager.finish, inherited by HotfixBranchManager
release_finish(st, id, name, fetch, do_rebase, keep, force_delete, push, tagging, env) ==
  LET full == full_name(id, name)
      a == Then(Then(uptodate_step(st, full, fetch),
                     LAMBDA s : uptodate_step(s, develop_name, fetch)),
                LAMBDA s : uptodate_step(s, master_name, fetch))
      b == Then(a, LAMBDA s : merge_step(s, id, name, master_name, env))
      c == IF tagging THEN Then(b, LAMBDA s : tag_step(s, name)) ELSE b
      d == Then(c, LAMBDA s : merge_step(s, id, name, develop_name, env))
      e == IF keep THEN d
           ELSE Then(d, LAMBDA s : delete_step(s, id, name, force_delete))
      f == IF push THEN Then(e, LAMBDA s : push_step(s)) ELSE e
  IN
  IF do_rebase THEN Fail(st, "AssertionError", << >>) ELSE f

\* a variant of SupportBranchManager.finish that ends the branch
support_finish_done(st, name, by_keyword) ==
  delete(Checkout(st, master_name), "support", name, TRUE)

\* SupportBranchManager.finish(self, *args): the signature takes positional
\* arguments only, so a call with a keyword argument ends in Python's
\* TypeError before the body runs; the body raises NotImplementedError
support_finish(st, name, by_keyword) ==
  IF by_keyword THEN Fail(st, "TypeError", << >>)
  ELSE Fail(st, "NotImplementedError", << >>)

\* the branch types that have a finish command
Finishable == {"feature", "release", "hotfix"}

\* the manager's finish, by branch type
finish(st, id, name, fetch, do_rebase, keep, force_delete, push, tagging, by_keyword, env) ==
  CASE id = "feature" ->
         feature_finish(st, name, fetch, do_rebase, keep, force_delete, push, tagging, env)
    [] id \in {"release", "hotfix"} ->
         release_finish(st, id, name, fetch, do_rebase, keep, force_delete, push, tagging, env)
    [] id = "support" -> support_finish(st, name, by_keyword)

\* GitFlow.finish(identifier, nameprefix): the branch is looked up by its
\* prefix and the manager's finish is called with the name only
gitflow_finish(st, id, nameprefix, env) ==
  LET r == by_name_prefix(st, id, nameprefix) IN
  IF r.res # "ok" THEN Fail(st, r.res, << >>)
  ELSE finish(st, id, shorten(id, r.branch), FALSE, FALSE, FALSE, FALSE,
              FALSE, FALSE, FALSE, env)

\* the command line's `<type> finish`: FeatureCommand.run_finish calls
\* gitflow.finish('feature', nameprefix); the body of
\* ReleaseCommand.run_finish and of HotfixCommand.run_finish is `pass`
run_finish(st, id, name, env) ==
  IF id = "feature" THEN gitflow_finish(st, id, name, env)
  ELSE Ok(st, << >>)

\* ------------------------------------------ track, publish, pull (core.py)
\* GitFlow.track: `BranchExistsError` is not a name of core.py; past that
\* check the code calls self.origin().fetch
track(st, id, name) ==
  IF st.branches[full_name(id, name)] # 0
  THEN Fail(st, "NameError", << >>)
  ELSE Fail(st, origin_call(st), << >>)

\* GitFlow.publish: `remote_name in repo.branches` looks origin/<name> up
\* among the local heads; then self.origin()
publish(st, id, name) ==
  IF st.branches[full_name(id, name)] = 0
  THEN Fail(st, "NoSuchBranchError", << >>)
  ELSE IF (<<"origin/">> \o full_name(id, name)) \in Heads(st)
  THEN Fail(st, "NameError", << >>)
  ELSE Fail(st, origin_call(st), << >>)

\* GitFlow.pull(identifier, remote, local_name): its first statement reads
\* `name`, which is bound nowhere
pull(st, id, name) == Fail(st, "NameError", << >>)

\* ------------------------------------------------------------ actions
Supporting(st) ==
  { n \in Heads(st) : \E id \in Identifiers : StartsWith(n, prefix(id)) }

Diverged(st, a, b) == ~IsAncestor(st, a, b) /\ ~IsAncestor(st, b, a)

\* the environment's choices that can make a difference in state st for an
\* operation on head `full` merging into `targets`
Envs(st, full, targets, rebasing) ==
  [conflicts : SUBSET { t \in targets :
                          /\ st.branches[full] # 0
                          /\ st.branches[t] # 0
                          /\ Diverged(st, st.branches[full], st.branches[t]) },
   rebase_conflict : IF rebasing THEN BOOLEAN ELSE {FALSE},
   overlap : IF st.wd = "clean" THEN {FALSE} ELSE BOOLEAN]

WithinBounds(st) ==
  /\ Len(st.parents) <= MaxCommits
  /\ Cardinality(Supporting(st)) <= MaxBranches
  /\ Cardinality({ n \in Names : st.rrefs[n] # 0 }) <= MaxRemoteRefs
  /\ Cardinality({ n \in Names : st.rrefs[n] # 0 })
       + (IF st.wd = "clean" THEN 0 ELSE 1) <= MaxDisturbances

\* `last` while no command has just ended
Idle == [op |-> "idle", id |-> "", name |-> << >>, args |-> << >>,
         res |-> "ok", log |-> << >>, changed |-> FALSE]

\* the next command is typed at the prompt
Running == steps < MaxSteps /\ last = Idle

\* the operation's result becomes the state
Install(r, op, id, name, args) ==
  /\ WithinBounds(r.st)
  /\ steps' = steps + 1
  /\ parents' = r.st.parents
  /\ branches' = r.st.branches
  /\ active' = r.st.active
  /\ tags' = r.st.tags
  /\ rrefs' = r.st.rrefs
  /\ tracking' = r.st.tracking
  /\ wd' = r.st.wd
  /\ mergehead' = r.st.mergehead
  /\ last' = [op |-> op, id |-> id, name |-> name, args |-> args,
              res |-> r.res, log |-> r.log, changed |-> r.st # Cur]
  /\ UNCHANGED <<snapshots, backups, config>>

\* the repositories git flow init is run in: an empty one, and repositories
\* that already have master and develop (init leaves existing heads alone):
\* develop one commit ahead of master, master and develop diverged, develop
\* two commits ahead of master, master a merge commit of those two commits
StartRepos ==
  { [parents |-> << << >> >>, master |-> 1, develop |-> 1],
    [parents |-> << << >>, <<1>> >>, master |-> 1, develop |-> 2],
    [parents |-> << << >>, <<1>>, <<1>> >>, master |-> 2, develop |-> 3],
    [parents |-> << << >>, <<1>>, <<2>> >>, master |-> 1, develop |-> 3],
    [parents |-> << << >>, <<1>>, <<2>>, <<1, 3>> >>, master |-> 4, develop |-> 3] }

\* GitFlow.init(): the initial commit and master unless master exists,
\* develop on master unless develop exists; develop is checked out
Init ==
  /\ \E r \in StartRepos :
       /\ parents = r.parents
       /\ branches = [n \in Names |->
                        CASE n = master_name -> r.master
                          [] n = develop_name -> r.develop
                          [] OTHER -> 0]
  /\ active = develop_name
  /\ tags = [t \in TagNames |-> 0]
  /\ rrefs = [n \in Names |-> 0]
  /\ tracking = {}
  /\ wd = "clean"
  /\ mergehead = 0
  /\ last = Idle
  /\ steps = 0
  /\ snapshots = << >>
  /\ backups = [n \in Names |-> 0]
  /\ config = [s \in Settings |-> builtin_default(s)]

Create ==
  /\ Running
  /\ \E id \in Identifiers : \E name \in NamesOf(id) : \E base \in 0 .. Len(parents),
          fetch \in BOOLEAN :
         \E env \in Envs(Cur, active, {}, FALSE) :
           Install(create(Cur, id, name, base, fetch, env), "create", id, name,
                   [base |-> base, fetch |-> fetch])

Merge ==
  /\ Running
  /\ \E id \in Identifiers : \E name \in NamesOf(id) : \E into \in Heads(Cur) :
         \E env \in Envs(Cur, full_name(id, name), {into}, FALSE) :
           Install(merge(Cur, id, name, into, env), "merge", id, name,
                   [into |-> into])

Delete ==
  /\ Running
  /\ \E id \in Identifiers : \E name \in NamesOf(id) : \E force \in BOOLEAN :
         Install(delete(Cur, id, name, force), "delete", id, name,
                 [force |-> force])

Finish ==
  /\ Running
  /\ \E id \in Identifiers : \E name \in NamesOf(id) : \E f \in FinishFlags :
         \E env \in Envs(Cur, full_name(id, name), {master_name, develop_name},
                         f.rebase) :
           /\ f.by_keyword => id = "support"
           /\ Install(finish(Cur, id, name, f.fetch, f.rebase, f.keep,
                             f.force_delete, f.push, f.tagging, f.by_keyword, env),
                      "finish", id, name, f)

CheckoutBranch ==
  /\ Running
  /\ \E id \in Identifiers : \E name \in NamesOf(id) :
         \E env \in Envs(Cur, active, {}, FALSE) :
           Install(checkout(Cur, id, name, env), "checkout", id, name, << >>)

\* queries: they answer and leave the repository alone
ByNamePrefix ==
  /\ Running
  /\ \E id \in Identifiers : \E p \in NamePrefixes :
         Install(find(Cur, id, p), "by_name_prefix", id, p, << >>)

NameOrCurrent ==
  /\ Running
  /\ \E id \in Identifiers : \E p \in NamePrefixes :
         Install(name_or_current(Cur, id, p), "name_or_current", id, p, << >>)

Track ==
  /\ Running
  /\ \E id \in Identifiers : \E name \in NamesOf(id) :
         Install(track(Cur, id, name), "track", id, name, << >>)

Publish ==
  /\ Running
  /\ \E id \in Identifiers : \E name \in NamesOf(id) :
         Install(publish(Cur, id, name), "publish", id, name, << >>)

Pull ==
  /\ Running
  /\ \E id \in Identifiers : \E name \in NamesOf(id) :
         Install(pull(Cur, id, name), "pull", id, name, << >>)

\* git flow feature|release|hotfix finish <name> on the command line
RunFinish ==
  /\ Running
  /\ \E id \in Finishable : \E name \in NamesOf(id) :
         \E env \in Envs(Cur, full_name(id, name), {master_name, develop_name},
                         FALSE) :
           Install(run_finish(Cur, id, name, env), "run_finish", id, name, << >>)

\* --- what the user does with git between two gitflow commands
UserStep(st) ==
  Install(Ok(st, << >>), "git", "", << >>, << >>)

\* git commit on the checked-out head
GitCommit ==
  /\ Running
  /\ mergehead = 0
  /\ UserStep([AddCommit(Cur, <<branches[active]>>) EXCEPT
                 !.branches[active] = NewCommit(Cur),
                 !.wd = IF wd = "staged" THEN "clean" ELSE wd])

\* the user resolves a conflicted merge and commits it, or gives it up
\* (git merge --abort, git rebase --abort)
GitResolve ==
  /\ Running
  /\ mergehead # 0
  /\ \/ /\ mergehead > 0
        /\ UserStep([AddCommit(Cur, <<branches[active], mergehead>>) EXCEPT
                       !.branches[active] = NewCommit(Cur),
                       !.mergehead = 0])
     \/ UserStep([Cur EXCEPT !.mergehead = 0])

\* git checkout master / develop
GitCheckout ==
  /\ Running
  /\ \E b \in {master_name, develop_name}, overlap \in BOOLEAN :
         /\ b # active
         /\ CanCheckout(Cur, b, overlap)
         /\ UserStep(Checkout(Cur, b))

\* the user edits files, stages them (git add) or throws the changes away
GitEdit ==
  /\ Running
  /\ \E w \in {"clean", "dirty", "staged"} :
         /\ w # wd
         /\ mergehead = 0
         /\ UserStep([Cur EXCEPT !.wd = w])

\* git fetch by hand: a remote-tracking ref appears, moves to another commit
\* of the clone, or is pruned
GitFetch ==
  /\ Running
  /\ \E n \in RemoteNames, c \in 0 .. Len(parents) :
         /\ c # rrefs[n]
         /\ UserStep([Cur EXCEPT !.rrefs[n] = c])

\* the command has ended and the prompt is back.  After a command that
\* left the repository exactly as it was the session is not followed
\* further: whatever can follow it already follows the state before it.
Prompt ==
  /\ last # Idle
  /\ last.changed
  /\ last' = Idle
  /\ UNCHANGED <<parents, branches, active, tags, rrefs, tracking, wd,
                 mergehead, steps, snapshots, backups, config>>

Next ==
  \/ Create
  \/ Merge
  \/ Delete
  \/ Finish
  \/ CheckoutBranch
  \/ ByNamePrefix
  \/ NameOrCurrent
  \/ Track
  \/ Publish
  \/ Pull
  \/ RunFinish
  \/ GitCommit
  \/ GitResolve
  \/ GitCheckout
  \/ GitEdit
  \/ GitFetch
  \/ Prompt

Spec == Init /\ [][Next]_vars

\* ------------------------------------------------ SnapshotStore (undo)
MaxSnapshots == 1

\* the heads in the order git lists them
HeadOrder ==
  << develop_name, <<"feature/", "a">>, <<"feature/", "a", "b">>,
     <<"hotfix/", "a">>, <<"hotfix/", "a", "b">>, master_name,
     <<"release/", "a">>, <<"release/", "a", "b">>, <<"support/", "a">> >>

\* GitFlow.branch_info: (name, hexsha, is the active branch)
branch_info(st, name) == <<name, st.branches[name], name = st.active>>

\* GitFlow.status: branch_info of every head, the backup heads included;
\* repo.active_branch raises TypeError while HEAD is detached
status(st, bk) ==
  LET kept(n) == bk[n] # 0
      there(n) == st.branches[n] # 0
      saved == SelectSeq(HeadOrder, kept)
      heads == SelectSeq(HeadOrder, there)
  IN IF st.mergehead = -1 THEN [res |-> "TypeError", tuples |-> << >>]
     ELSE [res |-> "ok",
           tuples |-> [i \in 1 .. Len(saved) |->
                         << <<"backup/">> \o saved[i], bk[saved[i]], FALSE >>]
                      \o [i \in 1 .. Len(heads) |-> branch_info(st, heads[i])]]

\* snap(description, heads): the tuples of the heads asked for are put on
\* the stack
snap(st, bk, stack, heads) ==
  LET s == status(st, bk)
      asked(t) == t[1] \in heads
  IN IF s.res # "ok" THEN [stack |-> stack, res |-> s.res]
     ELSE [stack |-> Append(stack, SelectSeq(s.tuples, asked)),
           res |-> "ok"]

\* a variant of restore_one that makes the backup head after the move
restore_one_backup_last(x, t, backup) ==
  LET name == t[1]
      hash == t[2]
      moved ==
        IF name = x.st.active
        THEN [x EXCEPT !.st.branches[name] = hash, !.st.wd = "clean",
                       !.st.mergehead = 0,
                       !.log = Append(@, <<"reset", name>>)]
        ELSE [x EXCEPT !.st.branches[name] = hash,
                       !.log = Append(@, <<"move", name>>)]
  IN IF x.st.mergehead = -1 THEN [x EXCEPT !.res = "TypeError"]
     ELSE IF ~backup THEN moved
     ELSE IF x.st.branches[name] = 0
     THEN [x EXCEPT !.res = "GitCommandError"]
     ELSE [moved EXCEPT !.backups[name] = moved.st.branches[name],
                        !.log = Append(@, <<"backup", name>>)]

\* a variant of restore_one that goes by the captured is-active flag
restore_one_captured_active(x, t, backup) ==
  LET name == t[1]
      hash == t[2]
      b == IF ~backup THEN x
           ELSE IF x.st.branches[name] = 0
           THEN [x EXCEPT !.res = "GitCommandError"]
           ELSE [x EXCEPT !.backups[name] = x.st.branches[name],
                          !.log = Append(@, <<"backup", name>>)]
  IN IF b.res # "ok" THEN b
     ELSE IF b.st.mergehead = -1 THEN [b EXCEPT !.res = "TypeError"]
     ELSE IF t[3]
     THEN [b EXCEPT !.st.branches[b.st.active] = hash, !.st.wd = "clean",
                    !.st.mergehead = 0,
                    !.log = Append(@, <<"reset", name>>)]
     ELSE [b EXCEPT !.st.branches[name] = hash,
                    !.log = Append(@, <<"move", name>>)]

\* restore of one captured tuple (name, hash, is-active): with backup the
\* head backup/<name> is first made on the current tip; then the active
\* branch is hard-reset to the captured hash, any other head is force-moved
restore_one(x, t, backup) ==
  LET name == t[1]
      hash == t[2]
      b == IF ~backup THEN x
           ELSE IF x.st.branches[name] = 0
           THEN [x EXCEPT !.res = "GitCommandError"]
           ELSE [x EXCEPT !.backups[name] = x.st.branches[name],
                          !.log = Append(@, <<"backup", name>>)]
  IN IF b.res # "ok" THEN b
     ELSE IF b.st.mergehead = -1 THEN [b EXCEPT !.res = "TypeError"]
     ELSE IF name = b.st.active
     THEN [b EXCEPT !.st.branches[name] = hash, !.st.wd = "clean",
                    !.st.mergehead = 0,
                    !.log = Append(@, <<"reset", name>>)]
     ELSE [b EXCEPT !.st.branches[name] = hash,
                    !.log = Append(@, <<"move", name>>)]

RECURSIVE restore_from(_, _, _, _, _)
\* the tuples from the i-th on, one after the other; the backend fails
\* after `stop` tuples (no failure when all are done by then), and what is
\* done by then stays done
restore_from(x, state, i, backup, stop) ==
  IF i > Len(state) \/ x.res # "ok" THEN x
  ELSE IF i > stop THEN [x EXCEPT !.res = "GitCommandError"]
  ELSE restore_from(restore_one(x, state[i], backup), state, i + 1,
                    backup, stop)

\* restore(snapshot, backup)
restore(st, bk, snapshot, backup, stop) ==
  restore_from([st |-> st, backups |-> bk, res |-> "ok", log |-> << >>],
               snapshot, 1, backup, stop)

\* the heads a snapshot is asked for: all of them, or the checked-out one
SnapSets(st) == { Heads(st), {st.active} }

Snap ==
  /\ last = Idle
  /\ Len(snapshots) < MaxSnapshots
  /\ \E heads \in SnapSets(Cur) :
       LET r == snap(Cur, backups, snapshots, heads) IN
       /\ snapshots' = r.stack
       /\ last' = [op |-> "snap", id |-> "", name |-> << >>,
                   args |-> [heads |-> heads], res |-> r.res, log |-> << >>,
                   changed |-> r.stack # snapshots]
  /\ UNCHANGED <<parents, branches, active, tags, rrefs, tracking, wd,
                 mergehead, steps, backups, config>>

\* restore of one of the snapshots on the stack
Restore ==
  /\ Running
  /\ \E i \in 1 .. Len(snapshots) : \E backup \in BOOLEAN :
       \E stop \in 0 .. Len(snapshots[i]) :
         LET r == restore(Cur, backups, snapshots[i], backup, stop) IN
         /\ steps' = steps + 1
         /\ parents' = r.st.parents
         /\ branches' = r.st.branches
         /\ active' = r.st.active
         /\ wd' = r.st.wd
         /\ mergehead' = r.st.mergehead
         /\ backups' = r.backups
         /\ last' = [op |-> "restore", id |-> "", name |-> << >>,
                     args |-> [index |-> i, backup |-> backup],
                     res |-> r.res, log |-> r.log, changed |-> TRUE]
  /\ UNCHANGED <<tags, rrefs, tracking, snapshots, config>>

\* the commands that make or remove a head; a call that left the
\* repository as it was makes no difference to a snapshot or a restore
CreateBranch == Create /\ last'.changed

DeleteBranch == Delete /\ last'.changed

\* the repository with its snapshot store
NextSnap ==
  \/ CreateBranch
  \/ DeleteBranch
  \/ GitCommit
  \/ GitCheckout
  \/ GitEdit
  \/ Snap
  \/ Restore
  \/ Prompt

SpecSnap == Init /\ [][NextSnap]_vars

\* ================================================== GitFlow.init (core.py)
\* a setting without a value in the repository's configuration; also the
\* None of an argument that is not given
NoValue == "<none>"

\* the settings whose default GitFlow.__init__ reads from a branch manager
ManagerSettings ==
  { "gitflow.prefix.feature", "gitflow.prefix.release",
    "gitflow.prefix.hotfix", "gitflow.prefix.support" }

\* a value other than the built-in default a repository may be configured
\* with, or init be called with
custom_value(s) ==
  CASE s = "gitflow.branch.master" -> "production"
    [] s = "gitflow.branch.develop" -> "devel"
    [] s = "gitflow.prefix.versiontag" -> "v"
    [] s = "gitflow.origin" -> "my-remote"
    [] s = "gitflow.prefix.feature" -> "f-"
    [] s = "gitflow.prefix.release" -> "rel-"
    [] s = "gitflow.prefix.hotfix" -> "hf-"
    [] s = "gitflow.prefix.support" -> "supp-"

\* GitFlow.get(setting, default)
get(cfg, setting, default) ==
  IF cfg[setting] # NoValue THEN cfg[setting] ELSE default

\* BranchManager._get_prefix as GitFlow.__init__ evaluates it: the
\* configured prefix, DEFAULT_PREFIX when the lookup raises
manager_prefix(cfg, setting) == get(cfg, setting, builtin_default(setting))

\* GitFlow.defaults as GitFlow.__init__ builds it on a repository
defaults(cfg) ==
  [s \in Settings |->
     IF s \in ManagerSettings THEN manager_prefix(cfg, s)
     ELSE builtin_default(s)]

\* the key _init_config looks up in `prefixes` for a setting other than
\* the two branch names: setting[len('gitflow.prefix.'):]
prefix_key(setting) ==
  CASE setting = "gitflow.prefix.versiontag" -> "versiontag"
    [] setting = "gitflow.prefix.feature" -> "feature"
    [] setting = "gitflow.prefix.release" -> "release"
    [] setting = "gitflow.prefix.hotfix" -> "hotfix"
    [] setting = "gitflow.prefix.support" -> "support"
    [] OTHER -> ""

\* dict.get(key, None) on the prefixes argument
prefixes_get(prefixes, key) ==
  IF key \in DOMAIN prefixes THEN prefixes[key] ELSE NoValue

\* GitFlow._init_config
init_config(cfg, master, develop, prefixes, force_defaults) ==
  [s \in Settings |->
     LET default == defaults(cfg)[s]
         value == IF force_defaults THEN default
                  ELSE IF s = "gitflow.branch.master" THEN master
                  ELSE IF s = "gitflow.branch.develop" THEN develop
                  ELSE prefixes_get(prefixes, prefix_key(s))
     IN IF value = NoValue THEN get(cfg, s, default) ELSE value]

\* GitFlow._init_initial_commit: unless the master head exists, a commit
\* of the index on top of HEAD's commit (none while HEAD is unborn) and the
\* master head on it; HEAD itself is not moved
init_initial_commit(st) ==
  IF st.branches[master_name] # 0 THEN st
  ELSE LET head == st.branches[st.active]
           c == NewCommit(st)
       IN [AddCommit(st, IF head = 0 THEN << >> ELSE <<head>>)
             EXCEPT !.branches[master_name] = c]

\* GitFlow._init_develop_branch: unless the develop head exists, it is
\* created on master's tip and checked out
init_develop_branch(st) ==
  IF st.branches[develop_name] # 0 THEN st
  ELSE Checkout([st EXCEPT !.branches[develop_name] = st.branches[master_name]],
                develop_name)

\* GitFlow.init on a repository and its settings.  The heads master_name
\* and develop_name of the model stand for the heads the two branch
\* settings name once _init_config has run.
init(st, cfg, master, develop, prefixes, force_defaults) ==
  [st |-> init_develop_branch(init_initial_commit(st)),
   config |-> init_config(cfg, master, develop, prefixes, force_defaults)]

\* the head a clone checks out when origin's HEAD is neither master nor
\* develop
clone_head == full_name("feature", <<"a">>)

\* the repositories git flow init may be run in.  `clone` tells that the
\* repository is a clone whose remote has both master and develop.
InitRepos ==
  { \* git init: HEAD on the unborn master
    [parents |-> << >>, heads |-> << >>, active |-> master_name,
     remote |-> << >>, clone |-> FALSE],
    \* a clone, origin's HEAD on a feature branch: no local master, no
    \* local develop
    [parents |-> << << >>, <<1>>, <<2>> >>,
     heads |-> << <<clone_head, 3>> >>, active |-> clone_head,
     remote |-> << <<master_name, 1>>, <<develop_name, 2>>, <<clone_head, 3>> >>,
     clone |-> TRUE],
    \* a clone, origin's HEAD on master: local master, no local develop
    [parents |-> << << >>, <<1>> >>,
     heads |-> << <<master_name, 1>> >>, active |-> master_name,
     remote |-> << <<master_name, 1>>, <<develop_name, 2>> >>,
     clone |-> TRUE],
    \* a repository with work on master only, no remote
    [parents |-> << << >>, <<1>> >>,
     heads |-> << <<master_name, 2>> >>, active |-> master_name,
     remote |-> << >>, clone |-> FALSE],
    \* a repository with work on another head only, no remote
    [parents |-> << << >> >>,
     heads |-> << <<clone_head, 1>> >>, active |-> clone_head,
     remote |-> << >>, clone |-> FALSE],
    \* master and develop exist, master checked out
    [parents |-> << << >>, <<1>> >>,
     heads |-> << <<master_name, 1>>, <<develop_name, 2>> >>,
     active |-> master_name, remote |-> << >>, clone |-> FALSE] }

\* the commit a list of <<name, commit>> pairs gives a name, 0 for none
RefOf(pairs, n) ==
  IF \E i \in 1 .. Len(pairs) : pairs[i][1] = n
  THEN pairs[CHOOSE i \in 1 .. Len(pairs) : pairs[i][1] = n][2]
  ELSE 0

\* the configurations init may meet: every setting unset, at its built-in
\* default, or at another value
InitConfigs ==
  { [s \in Settings |->
       CASE k[s] = "unset" -> NoValue
         [] k[s] = "default" -> builtin_default(s)
         [] k[s] = "custom" -> custom_value(s)] :
    k \in [Settings -> {"unset", "default", "custom"}] }

\* the arguments init is called with
InitArgs ==
  [master : {NoValue, "stable"},
   develop : {NoValue},
   prefixes : { << >>, [k \in {"feature"} |-> "feat/"] },
   force_defaults : BOOLEAN]

InitUninitialized ==
  /\ \E r \in InitRepos :
       /\ parents = r.parents
       /\ branches = [n \in Names |-> RefOf(r.heads, n)]
       /\ active = r.active
       /\ rrefs = [n \in Names |-> RefOf(r.remote, n)]
       /\ tracking = { n \in Names : RefOf(r.heads, n) # 0 /\ RefOf(r.remote, n) # 0 }
  /\ tags = [t \in TagNames |-> 0]
  /\ wd = "clean"
  /\ mergehead = 0
  /\ last = Idle
  /\ steps = 0
  /\ snapshots = << >>
  /\ backups = [n \in Names |-> 0]
  /\ config \in InitConfigs

\* git flow init
GitflowInit ==
  /\ Running
  /\ \E a \in InitArgs :
       LET r == init(Cur, config, a.master, a.develop, a.prefixes,
                     a.force_defaults)
       IN /\ steps' = steps + 1
          /\ parents' = r.st.parents
          /\ branches' = r.st.branches
          /\ active' = r.st.active
          /\ config' = r.config
          /\ last' = [op |-> "init", id |-> "", name |-> << >>, args |-> a,
                      res |-> "ok", log |-> << >>,
                      changed |-> r.st # Cur \/ r.config # config]
          /\ UNCHANGED <<tags, rrefs, tracking, wd, mergehead, snapshots,
                         backups>>

NextInit ==
  \/ GitflowInit
  \/ Prompt

SpecInit == InitUninitialized /\ [][NextInit]_vars

\* ============================================ finishing a started release
\* the types ReleaseBranchManager.create allows one branch of at a time
SingletonTypes == {"release", "hotfix"}

\* repositories in which a release or hotfix named a has been started with
\* create and worked on, the branch checked out: the branch one commit
\* ahead of master beside a develop that moved on, the branch one commit
\* ahead of develop, the branch just created, and the branch on master's
\* tip beside a develop that diverged from master
StartedRepos ==
  { [parents |-> << << >>, <<1>>, <<1>> >>, master |-> 1, develop |-> 2, branch |-> 3],
    [parents |-> << << >>, <<1>>, <<2>> >>, master |-> 1, develop |-> 2, branch |-> 3],
    [parents |-> << << >> >>, master |-> 1, develop |-> 1, branch |-> 1],
    [parents |-> << << >>, <<1>>, <<1>> >>, master |-> 2, develop |-> 3, branch |-> 2] }

InitStarted ==
  /\ \E r \in StartedRepos, id \in SingletonTypes :
       /\ parents = r.parents
       /\ branches = [n \in Names |->
                        CASE n = master_name -> r.master
                          [] n = develop_name -> r.develop
                          [] n = full_name(id, <<"a">>) -> r.branch
                          [] OTHER -> 0]
       /\ active = full_name(id, <<"a">>)
  /\ tags = [t \in TagNames |-> 0]
  /\ rrefs = [n \in Names |-> 0]
  /\ tracking = {}
  /\ wd = "clean"
  /\ mergehead = 0
  /\ last = Idle
  /\ steps = 0
  /\ snapshots = << >>
  /\ backups = [n \in Names |-> 0]
  /\ config = [s \in Settings |-> builtin_default(s)]

\* finish, and what the user does about a finish that stopped
NextRetry ==
  \/ Finish
  \/ GitResolve
  \/ GitCommit
  \/ Prompt

SpecRetry == InitStarted /\ [][NextRetry]_vars

\* ================================================================ claims
\* C1: in every reachable state there is at most one local head with the
\* release prefix and at most one with the hotfix prefix
C1_AtMostOnePerSingletonType ==
  \A id \in SingletonTypes : Cardinality(list(Cur, id)) <= 1

\* a second release is asked for while one is there, and one is there after
C1_Witness ==
  /\ last.op = "create"
  /\ last.id = "release"
  /\ last.res # "ok"
  /\ Cardinality(list(Cur, "release")) = 1

\* C2: create of a release or hotfix while a head of that type exists raises
\* BranchTypeExistsError with the identifier, and no head, no tag and not
\* the checked-out head is changed
C2_SecondCreateRefused ==
  [][(/\ last'.op = "create"
      /\ last'.id \in SingletonTypes
      /\ list(Cur, last'.id) # {})
     => (/\ last'.res = "BranchTypeExistsError"
         /\ last'.log = <<last'.id>>
         /\ UNCHANGED <<branches, tags, active>>)]_vars

\* a hotfix is asked for under the very name of the one that exists
C2_Witness ==
  /\ last.op = "create"
  /\ last.id = "hotfix"
  /\ last.res = "BranchTypeExistsError"
  /\ branches[full_name("hotfix", last.name)] # 0
  /\ ~last.changed

\* the command that just ended was a finish of one of the types `ids`
Finished(l, ids) == l.op = "finish" /\ l.id \in ids
FinishedOk(l, ids) == Finished(l, ids) /\ l.res = "ok"

\* the head the command that just ended was about
Subject(l) == full_name(l.id, l.name)

\* the places of entry e in a log
Places(log, e) == { i \in 1 .. Len(log) : log[i] = e }
MergePlaces(log, into) ==
  { i \in 1 .. Len(log) : log[i][1] = "merge" /\ log[i][2] = into[1] }

\* C3: after a successful finish of a release or hotfix master's tip is an
\* ancestor of develop's tip; stated for the finishes that start where the
\* branching model keeps the repository, master's tip an ancestor of develop's
C3_MasterAncestorOfDevelop ==
  [][(/\ FinishedOk(last', SingletonTypes)
      /\ IsAncestor(Cur, branches[master_name], branches[develop_name]))
     => branches'[master_name] \in Ancestors(parents', branches'[develop_name])]_vars

\* C4: a successful finish of a release or hotfix changes master's tip and
\* develop's tip
C4_BothTipsChange ==
  [][FinishedOk(last', SingletonTypes)
     => (/\ branches'[master_name] # branches[master_name]
         /\ branches'[develop_name] # branches[develop_name])]_vars

\* C4 as the code has it: a successful finish of a release or hotfix changes
\* master's tip exactly when the branch was not merged into master yet, and
\* develop's tip exactly when it was not merged into develop yet
C4_TipsChangeUnlessMerged ==
  [][FinishedOk(last', SingletonTypes)
     => \A t \in {master_name, develop_name} :
          (branches'[t] # branches[t])
            <=> ~is_merged_into(Cur, branches[Subject(last')], branches[t])]_vars

\* a release is finished that master lacked and develop had
C4_Witness ==
  /\ FinishedOk(last, SingletonTypes)
  /\ last.log = << <<"merge", "master", "ff">>, <<"merge", "develop", "noop">>,
                   <<"delete">> >>

\* the places in a log where the tag was made, or found to be there already
TagPlaces(log) == Places(log, <<"tag">>) \cup Places(log, <<"tag_skipped">>)

\* C5: with tagging info the tag versiontag_prefix + name is made after the
\* merge into master and before the merge into develop, on master's tip
\* after its merge, which is where master is after the finish
C5_TagBetweenMerges ==
  (Finished(last, SingletonTypes) /\ last.args.tagging)
    => LET t == versiontag_prefix \o last.name IN
       /\ last.res = "ok" => (TagPlaces(last.log) # {} /\ tags[t] # 0)
       /\ \A i \in TagPlaces(last.log) :
            /\ \E j \in MergePlaces(last.log, master_name) : j < i
            /\ \A k \in MergePlaces(last.log, develop_name) : i < k
       /\ Places(last.log, <<"tag">>) # {} => tags[t] = branches[master_name]

\* a release that master gets by a merge commit is finished with the tag
C5_Witness ==
  /\ FinishedOk(last, SingletonTypes)
  /\ last.args.tagging
  /\ <<"merge", "master", "merge_commit">> \in { last.log[i] : i \in 1 .. Len(last.log) }
  /\ Len(parents[tags[versiontag_prefix \o last.name]]) = 2

\* C6: a finish of a feature, whatever its flags and however it ends, leaves
\* master's tip where it was
C6_FeatureFinishKeepsMaster ==
  [][Finished(last', {"feature"})
     => branches'[master_name] = branches[master_name]]_vars

\* a feature is rebased, merged into develop and kept
C6_Witness ==
  /\ FinishedOk(last, {"feature"})
  /\ last.args.rebase
  /\ last.args.keep
  /\ <<"rebase">> \in { last.log[i] : i \in 1 .. Len(last.log) }
  /\ branches[master_name] # branches[develop_name]

\* C7: a successful finish of a feature changes develop's tip
C7_DevelopChanges ==
  [][FinishedOk(last', {"feature"})
     => branches'[develop_name] # branches[develop_name]]_vars

\* C7 as the code has it: a successful finish of a feature changes develop's
\* tip only when the feature was not merged into develop yet, and then it
\* does unless the finish was asked to rebase (a rebase may leave the
\* feature with nothing of its own)
C7_DevelopChangesUnlessMerged ==
  [][FinishedOk(last', {"feature"})
     => LET merged == is_merged_into(Cur, branches[Subject(last')],
                                     branches[develop_name])
        IN
        /\ (branches'[develop_name] # branches[develop_name]) => ~merged
        /\ (~merged /\ ~last'.args.rebase)
             => branches'[develop_name] # branches[develop_name]]_vars

\* a feature without a commit of its own is finished
C7_Witness ==
  /\ FinishedOk(last, {"feature"})
  /\ last.log = << <<"merge", "develop", "noop">>, <<"delete">> >>

\* the commits head b has and head a lacks
Ahead(st, b, a) ==
  Ancestors(st.parents, st.branches[b]) \ Ancestors(st.parents, st.branches[a])

\* head b exists and has everything head a has, and more
StrictlyAhead(st, b, a) ==
  /\ st.branches[b] # 0
  /\ st.branches[a] # 0
  /\ st.branches[b] # st.branches[a]
  /\ IsAncestor(st, st.branches[a], st.branches[b])

\* C8: a merge of a branch strictly ahead of `into` that is exactly one
\* commit ahead leaves `into` on the branch's tip, a commit with one parent,
\* and makes no commit; one of a branch further ahead makes one new commit,
\* with the old tip of `into` and the branch's tip as its two parents, and
\* leaves `into` there
C8_FastForwardOrMergeCommit ==
  [][(/\ last'.op = "merge"
      /\ last'.res = "ok"
      /\ StrictlyAhead(Cur, Subject(last'), last'.args.into))
     => LET b == Subject(last')
            into == last'.args.into
        IN
        IF Cardinality(Ahead(Cur, b, into)) = 1
        THEN /\ parents' = parents
             /\ branches'[into] = branches[b]
             /\ Len(parents'[branches'[into]]) = 1
        ELSE /\ Len(parents') = Len(parents) + 1
             /\ branches'[into] = Len(parents')
             /\ parents'[Len(parents')] = <<branches[into], branches[b]>>]_vars

\* C8 as the code has it: the fast-forward leaves `into` on the branch's
\* tip and makes no commit, whatever parents that tip has
C8_FastForwardToAnyTip ==
  [][(/\ last'.op = "merge"
      /\ last'.res = "ok"
      /\ StrictlyAhead(Cur, Subject(last'), last'.args.into))
     => LET b == Subject(last')
            into == last'.args.into
        IN
        IF Cardinality(Ahead(Cur, b, into)) = 1
        THEN /\ parents' = parents
             /\ branches'[into] = branches[b]
        ELSE /\ Len(parents') = Len(parents) + 1
             /\ branches'[into] = Len(parents')
             /\ parents'[Len(parents')] = <<branches[into], branches[b]>>]_vars

\* a branch whose one commit ahead is a merge commit has been merged
C8_Witness ==
  /\ last.op = "merge"
  /\ last.res = "ok"
  /\ last.log = <<"checkout", "ff">>
  /\ branches[last.args.into] = branches[Subject(last)]
  /\ Len(parents[branches[last.args.into]]) = 2

\* C9: a merge of a branch that `into` already has leaves every head where
\* it was and makes no commit
C9_MergedIsNoOp ==
  [][(/\ last'.op = "merge"
      /\ branches[Subject(last')] # 0
      /\ branches[last'.args.into] # 0
      /\ is_merged_into(Cur, branches[Subject(last')],
                         branches[last'.args.into]))
     => (branches' = branches /\ parents' = parents)]_vars

\* a feature that is behind the head it is merged into
C9_Witness ==
  /\ last.op = "merge"
  /\ last.res = "ok"
  /\ last.log = <<"checkout", "noop">>
  /\ branches[Subject(last)] # branches[last.args.into]

\* C10: after a successful finish without keep the branch is gone; with
\* keep it is there, its tip where it was
C10_KeepOrDelete ==
  [][FinishedOk(last', Finishable)
     => IF last'.args.keep
        THEN /\ branches'[Subject(last')] # 0
             /\ branches'[Subject(last')] = branches[Subject(last')]
        ELSE branches'[Subject(last')] = 0]_vars

\* C10 as the code has it: with keep the tip is where it was unless the
\* finish was asked to rebase the branch
C10_KeepOrDeleteUnlessRebased ==
  [][FinishedOk(last', Finishable)
     => IF last'.args.keep
        THEN /\ branches'[Subject(last')] # 0
             /\ ~last'.args.rebase
                  => branches'[Subject(last')] = branches[Subject(last')]
        ELSE branches'[Subject(last')] = 0]_vars

\* a kept feature that the finish has rebased
C10_Witness ==
  /\ FinishedOk(last, Finishable)
  /\ last.args.keep
  /\ last.args.rebase
  /\ last.log = << <<"rebase">>, <<"merge", "develop", "ff">> >>
  /\ branches[Subject(last)] = branches[develop_name]

\* the heads of type id whose name starts with the type's prefix followed
\* by p
Matching(id, p) ==
  { b \in Heads(Cur) : StartsWith(b, DEFAULT_PREFIX(id))
                         /\ StartsWith(b, DEFAULT_PREFIX(id) \o p) }

\* C11: by_name_prefix(p) raises NoSuchBranchError when no head of the type
\* starts with prefix + p, returns the head when there is exactly one, raises
\* PrefixNotUniqueError when there are several; what it returns is a head of
\* the type, and the repository is as it was
C11_ByNamePrefixTotal ==
  last.op = "by_name_prefix"
    => LET M == Matching(last.id, last.name) IN
       /\ ~last.changed
       /\ Cardinality(M) = 0 => (last.res = "NoSuchBranchError" /\ last.log = << >>)
       /\ Cardinality(M) = 1 => (last.res = "ok" /\ \A b \in M : last.log = <<b>>)
       /\ Cardinality(M) > 1 => (last.res = "PrefixNotUniqueError" /\ last.log = << >>)
       /\ last.res = "ok" => StartsWith(last.log[1], DEFAULT_PREFIX(last.id))

\* a prefix that two features share has been looked up
C11_Witness ==
  /\ last.op = "by_name_prefix"
  /\ last.res = "PrefixNotUniqueError"
  /\ last.name = <<"a">>
  /\ Cardinality(Matching(last.id, last.name)) = 2

\* the answer of name_or_current, as (result, short name)
Answer(r) == <<r.res, r.log>>

BaseOf(id) == IF id \in {"hotfix", "support"} THEN master_name ELSE develop_name

\* the command that just ended was a create
Created(l) == l.op = "create"
CreatedOk(l) == l.op = "create" /\ l.res = "ok"

C14_ExistingNameRefused ==
  [][(/\ Created(last')
      /\ last'.id \in {"feature", "support"}
      /\ branches[Subject(last')] # 0)
     => (/\ last'.res = "BranchExistsError"
         /\ UNCHANGED <<parents, branches, active, tags, rrefs, tracking>>)]_vars

\* a feature is asked for again, with a base its head is not on
C14_Witness ==
  /\ Created(last)
  /\ last.id = "feature"
  /\ last.res = "BranchExistsError"
  /\ last.args.base # 0
  /\ branches[Subject(last)] # last.args.base
  /\ active # Subject(last)

\* C15: create of a release or hotfix while no head of the type exists and
\* the tag versiontag_prefix + version exists raises TagExistsError and
\* makes no head
C15_TaggedVersionRefused ==
  [][(/\ Created(last')
      /\ last'.id \in SingletonTypes
      /\ \A n \in Heads(Cur) : ~StartsWith(n, DEFAULT_PREFIX(last'.id))
      /\ tags[versiontag_prefix \o last'.name] # 0)
     => (/\ last'.res = "TagExistsError"
         /\ branches' = branches
         /\ active' = active)]_vars

\* a version that was released and tagged is asked for again
C15_Witness ==
  /\ Created(last)
  /\ last.id \in SingletonTypes
  /\ last.res = "TagExistsError"
  /\ tags[versiontag_prefix \o last.name] # 0
  /\ branches[Subject(last)] = 0

\* the create that just ended named a head that existed, or was of a
\* singleton type with a head or with the version's tag there: the checks
\* that come before the ones on the index
NameTaken(l) ==
  \/ branches[Subject(l)] # 0
  \/ /\ l.id \in SingletonTypes
     /\ \/ \E n \in Heads(Cur) : StartsWith(n, DEFAULT_PREFIX(l.id))
        \/ tags[versiontag_prefix \o l.name] # 0

\* C16: create fails and makes no head whenever the index holds staged
\* changes or a conflict is unresolved, for every type, so also from a merge
\* that stopped in a conflict until the conflict is resolved; the error is
\* MergeConflict for the conflict and WorkdirIsDirtyError for the staged
\* changes unless the name, type or tag check has refused the call already
C16_IndexMustBeSettled ==
  [][(/\ Created(last')
      /\ (wd = "staged" \/ mergehead # 0))
     => (/\ last'.res # "ok"
         /\ branches' = branches
         /\ active' = active
         /\ ~NameTaken(last')
              => last'.res = (IF mergehead # 0 THEN "MergeConflict"
                              ELSE "WorkdirIsDirtyError"))]_vars

\* a support branch is asked for while a merge is stopped in a conflict
C16_Witness ==
  /\ Created(last)
  /\ last.id = "support"
  /\ last.res = "MergeConflict"
  /\ mergehead > 0
  /\ branches[Subject(last)] = 0

BaseIsLookedAt(l) ==
  /\ ~NameTaken(l)
  /\ wd # "staged"
  /\ mergehead = 0
  /\ ~l.args.fetch
  /\ rrefs[BaseOf(l.id)] \in {0, branches[BaseOf(l.id)]}

\* C18: create of a release, hotfix or support branch with a base that is
\* not an ancestor of the type's default base fails and makes no head, with
\* BaseNotOnBranch when the call gets as far as the base; create of a
\* feature with such a base is not refused for it: without a remote
\* counterpart the head is made on that base
C18_BaseOnDefaultBase ==
  [][(/\ Created(last')
      /\ last'.args.base # 0
      /\ ~IsAncestor(Cur, last'.args.base, branches[BaseOf(last'.id)]))
     => IF last'.id = "feature"
        THEN (BaseIsLookedAt(last') /\ rrefs[Subject(last')] = 0)
               => (/\ last'.res \in {"ok", "GitCommandError"}
                   /\ branches'[Subject(last')] = last'.args.base
                   /\ last'.res = "ok" => active' = Subject(last'))
        ELSE /\ last'.res # "ok"
             /\ branches' = branches
             /\ active' = active
             /\ BaseIsLookedAt(last') => last'.res = "BaseNotOnBranch"]_vars

\* a hotfix is asked for on develop's tip, which master does not have
C18_Witness ==
  /\ Created(last)
  /\ last.id = "hotfix"
  /\ last.res = "BaseNotOnBranch"
  /\ last.args.base = branches[develop_name]
  /\ ~IsAncestor(Cur, branches[develop_name], branches[master_name])
  /\ branches[Subject(last)] = 0

C20_SupportFinishOneError ==
  [][Finished(last', {"support"})
     => (/\ last'.res = "NotImplementedError"
         /\ UNCHANGED <<parents, branches, tags, active>>)]_vars

\* C20 as the code has it: finish on the support manager fails for every
\* name and every combination of arguments and changes nothing, with
\* NotImplementedError when the arguments are passed by position and with
\* TypeError when one is passed by keyword; and a support head that is
\* there goes away by a delete of that very branch only
C20_SupportNeverFinishes ==
  [][/\ Finished(last', {"support"})
          => (/\ last'.res = (IF last'.args.by_keyword THEN "TypeError"
                              ELSE "NotImplementedError")
              /\ UNCHANGED <<parents, branches, tags, active>>)
     /\ \A n \in NamesOf("support") :
          (/\ branches[full_name("support", n)] # 0
           /\ branches'[full_name("support", n)] = 0)
            => (last'.op = "delete" /\ last'.id = "support" /\ last'.name = n)]_vars

\* finish is called with keep=True on a support branch that is there
C20_Witness ==
  /\ Finished(last, {"support"})
  /\ last.args.by_keyword
  /\ last.args.keep
  /\ last.res = "TypeError"
  /\ branches[Subject(last)] # 0

\* C21: track(identifier, name) on a name whose head is there already
\* fails with BranchExistsError before anything is fetched: no head and no
\* remote-tracking ref is made or moved, no tracking is set up and the
\* checked-out head is the same
C21_TrackExistingRaisesBranchExists ==
  [][(/\ last'.op = "track"
      /\ branches[full_name(last'.id, last'.name)] # 0)
     => (/\ last'.res = "BranchExistsError"
         /\ UNCHANGED <<parents, branches, rrefs, tracking, active>>)]_vars

\* C22: track(identifier, name) of a name that has a branch on origin and
\* no local head, in a settled working tree, succeeds, and after it the
\* local head is there on the commit of origin's branch, has that branch
\* as its tracking branch and is checked out
C22_TrackCreatesTrackingBranch ==
  [][(/\ last'.op = "track"
      /\ branches[full_name(last'.id, last'.name)] = 0
      /\ rrefs[full_name(last'.id, last'.name)] # 0
      /\ wd = "clean"
      /\ mergehead = 0)
     => (/\ last'.res = "ok"
         /\ branches'[full_name(last'.id, last'.name)]
              = rrefs'[full_name(last'.id, last'.name)]
         /\ full_name(last'.id, last'.name) \in tracking'
         /\ active' = full_name(last'.id, last'.name))]_vars

\* C23: publish(identifier, name) fails with NoSuchBranchError when the
\* local head is missing and with BranchExistsError when origin has the
\* branch already; either way nothing is pushed, no tracking is set up and
\* the checked-out head is the same
C23_PublishRefusals ==
  [][last'.op = "publish"
     => (/\ branches[full_name(last'.id, last'.name)] = 0
              => last'.res = "NoSuchBranchError"
         /\ (/\ branches[full_name(last'.id, last'.name)] # 0
             /\ rrefs[full_name(last'.id, last'.name)] # 0)
              => last'.res = "BranchExistsError"
         /\ (\/ branches[full_name(last'.id, last'.name)] = 0
             \/ rrefs[full_name(last'.id, last'.name)] # 0)
              => UNCHANGED <<parents, branches, rrefs, tracking, active>>)]_vars

\* C24: pull(identifier, remote, name) while a head of type identifier
\* other than prefix+name is checked out aborts with SystemExit before
\* anything is fetched, merged or created
C24_PullOnOtherBranchOfTypeExits ==
  [][(/\ last'.op = "pull"
      /\ StartsWith(active, prefix(last'.id))
      /\ active # full_name(last'.id, last'.name))
     => (/\ last'.res = "SystemExit"
         /\ UNCHANGED <<parents, branches, rrefs, tracking, active>>)]_vars

\* C25: pull(identifier, remote, name) of a branch the remote has, called
\* where pull is allowed (the checked-out head is prefix+name itself or is
\* not of type identifier), succeeds, and after it the local head
\* prefix+name is there, is checked out, contains the remote branch's
\* commits and has no tracking branch, whether it was there before or not
C25_PullGivesNonTrackingBranch ==
  [][(/\ last'.op = "pull"
      /\ rrefs[full_name(last'.id, last'.name)] # 0
      /\ \/ active = full_name(last'.id, last'.name)
         \/ /\ ~StartsWith(active, prefix(last'.id))
            /\ branches[full_name(last'.id, last'.name)] = 0
      /\ wd = "clean"
      /\ mergehead = 0)
     => (/\ last'.res = "ok"
         /\ branches'[full_name(last'.id, last'.name)] # 0
         /\ active' = full_name(last'.id, last'.name)
         /\ IsAncestor([parents |-> parents'],
                       rrefs'[full_name(last'.id, last'.name)],
                       branches'[full_name(last'.id, last'.name)])
         /\ full_name(last'.id, last'.name) \notin tracking')]_vars

\* C26: delete(name, force) is rejected and leaves every head where it is
\* when prefix+name is the checked-out head (with or without force), when
\* there is no such head, or when the head is not fully merged and force
\* is false; with force a head that is not checked out and not fully
\* merged is deleted, and no other head moves
C26_DeleteRejections ==
  [][last'.op = "delete"
     => LET full == full_name(last'.id, last'.name) IN
        /\ (\/ active = full
            \/ branches[full] = 0
            \/ (~last'.args.force /\ ~FullyMerged(Cur, full)))
             => (/\ last'.res # "ok"
                 /\ UNCHANGED <<parents, branches, active, tags, rrefs>>)
        /\ (/\ last'.args.force
            /\ active # full
            /\ branches[full] # 0
            /\ ~FullyMerged(Cur, full))
             => (/\ last'.res = "ok"
                 /\ branches' = [branches EXCEPT ![full] = 0]
                 /\ active' = active)]_vars

\* delete without force has just been refused for a head that is there,
\* is not checked out and is not fully merged
C26_Witness ==
  /\ last.op = "delete"
  /\ ~last.args.force
  /\ last.res = "GitCommandError"
  /\ branches[Subject(last)] # 0
  /\ active # Subject(last)
  /\ ~FullyMerged(Cur, Subject(last))

\* the repository right after the step
CurAfter == [parents |-> parents', branches |-> branches', active |-> active',
             tags |-> tags', rrefs |-> rrefs', tracking |-> tracking',
             wd |-> wd', mergehead |-> mergehead']

\* C27: whatever was done to the heads since the snapshot was taken, after
\* a restore of it that ran to its end status() answers, and lists every
\* head name captured in the snapshot with exactly the captured hash
C27_RestoreReproducesSnapshot ==
  [][(last'.op = "restore" /\ last'.res = "ok")
     => LET s == snapshots[last'.args.index]
            t == status(CurAfter, backups')
        IN /\ t.res = "ok"
           /\ \A i \in 1 .. Len(s) :
                /\ \E j \in 1 .. Len(t.tuples) : t.tuples[j][1] = s[i][1]
                /\ \A j \in 1 .. Len(t.tuples) :
                     t.tuples[j][1] = s[i][1] => t.tuples[j][2] = s[i][2]]_vars

\* a restore with backups has run to its end and has moved a head that is
\* not checked out away from the tip it had
C27_Witness ==
  /\ last.op = "restore"
  /\ last.res = "ok"
  /\ \E n \in Names :
       /\ n # active
       /\ backups[n] # 0
       /\ backups[n] # branches[n]
       /\ \E i \in 1 .. Len(snapshots[last.args.index]) :
            snapshots[last.args.index][i][1] = n

\* the place of the entry <<kind, n>> in a restore's log, 0 when not there
PlaceOf(log, kind, n) ==
  IF \E i \in 1 .. Len(log) : log[i] = <<kind, n>>
  THEN CHOOSE i \in 1 .. Len(log) : log[i] = <<kind, n>>
  ELSE 0

\* the heads a restore has reset or moved
Restored(log) ==
  { n \in Names : PlaceOf(log, "reset", n) # 0 \/ PlaceOf(log, "move", n) # 0 }

\* C28: restore(snapshot, backup=true) makes, for each captured head it
\* restores, the head backup/<name> on the tip the head had right before
\* the restore (not on the captured hash), and makes it before the head is
\* moved; a restore that runs to its end has done so for every captured
\* name
C28_BackupBeforeMove ==
  [][(last'.op = "restore" /\ last'.args.backup)
     => /\ \A n \in Restored(last'.log) :
             /\ branches[n] # 0
             /\ backups'[n] = branches[n]
             /\ PlaceOf(last'.log, "backup", n) # 0
             /\ PlaceOf(last'.log, "backup", n)
                  < PlaceOf(last'.log, "reset", n)
                    + PlaceOf(last'.log, "move", n)
        /\ last'.res = "ok"
             => \A i \in 1 .. Len(snapshots[last'.args.index]) :
                  snapshots[last'.args.index][i][1] \in Restored(last'.log)]_vars

\* a restore with backups has run to its end and has reset the checked-out
\* head, whose tip was not the captured one; the backup head is on the tip
\* it had
C28_Witness ==
  /\ last.op = "restore"
  /\ last.args.backup
  /\ last.res = "ok"
  /\ PlaceOf(last.log, "reset", active) # 0
  /\ backups[active] # 0
  /\ backups[active] # branches[active]

\* the local steps of the finish that just ended all went through: the
\* same call without push succeeds and leaves the heads as they are now
LocalStepsDone ==
  \E env \in Envs(Cur, Subject(last'), {master_name, develop_name},
                  last'.args.rebase) :
    LET r == finish(Cur, last'.id, last'.name, last'.args.fetch,
                    last'.args.rebase, last'.args.keep,
                    last'.args.force_delete, FALSE, last'.args.tagging,
                    last'.args.by_keyword, env)
    IN r.res = "ok" /\ r.st.branches = branches'

\* C29: a finish(push=true) whose local steps go through returns normally,
\* and after it every merge target on origin (develop, and master for a
\* release or hotfix) is on the commit of the local target, and the
\* finished branch is gone from origin unless keep is set, in which case
\* origin's branch is where it was; with push=false no remote ref changes
C29_FinishPushes ==
  [][Finished(last', Finishable)
     => /\ (last'.args.push /\ LocalStepsDone)
             => (/\ last'.res = "ok"
                 /\ rrefs'[develop_name] = branches'[develop_name]
                 /\ last'.id \in SingletonTypes
                      => rrefs'[master_name] = branches'[master_name]
                 /\ rrefs'[Subject(last')]
                      = (IF last'.args.keep THEN rrefs[Subject(last')] ELSE 0))
        /\ ~last'.args.push => rrefs' = rrefs]_vars

\* C30: after `release finish <version>` or `hotfix finish <version>` on
\* the command line has returned successfully the head prefix+version is
\* not there
C30_CommandLineFinishDeletes ==
  [][(/\ last'.op = "run_finish"
      /\ last'.id \in SingletonTypes
      /\ last'.res = "ok")
     => branches'[Subject(last')] = 0]_vars

\* a step of git flow init
Inited == last = Idle /\ last'.op = "init"

\* a clone without local master and develop whose remote has both
BareClone ==
  /\ branches[master_name] = 0
  /\ branches[develop_name] = 0
  /\ rrefs[master_name] # 0
  /\ rrefs[develop_name] # 0

\* C31: init on a clone that has no local master and no local develop but
\* has both on the remote creates local master and develop on the commits
\* of the remote counterparts, tracking them, creates no commit, adds no
\* other head, and checks out develop
C31_InitOnCloneUsesRemoteCounterparts ==
  [][Inited /\ BareClone =>
       /\ parents' = parents
       /\ branches'[master_name] = rrefs[master_name]
       /\ branches'[develop_name] = rrefs[develop_name]
       /\ {master_name, develop_name} \subseteq tracking'
       /\ { n \in Names : branches'[n] # 0 }
            = { n \in Names : branches[n] # 0 } \cup {master_name, develop_name}
       /\ active' = develop_name]_vars

\* init was called with no argument but, possibly, force_defaults
PlainInit ==
  /\ Inited
  /\ last'.args.master = NoValue
  /\ last'.args.develop = NoValue
  /\ last'.args.prefixes = << >>

\* C32: init(force_defaults=True) leaves every setting at its built-in
\* default whatever was configured before; init() without force keeps
\* every configured value and fills the unset settings with the defaults
C32_ForceDefaultsResetsEverySetting ==
  [][PlainInit =>
       \A s \in Settings :
          config'[s] = IF last'.args.force_defaults \/ config[s] = NoValue
                       THEN builtin_default(s)
                       ELSE config[s]]_vars

\* the finish of a release or hotfix that just ended stopped in a conflict
\* of its merge into develop
DevelopConflict(l) ==
  /\ Finished(l, SingletonTypes)
  /\ l.res # "ok"
  /\ Len(l.log) >= 1
  /\ l.log[Len(l.log)] = <<"merge", develop_name[1], "conflict">>

\* C33: a finish of a release or hotfix that fails with a conflict in the
\* merge into develop rolls nothing back: master keeps the tip the merge
\* into master gave it, the tag, if asked for, exists, the branch still
\* exists, develop has not moved, nothing was pushed, and the repository
\* is left on develop in the unresolved merge
C33_NoRollbackAfterDevelopConflict ==
  [][DevelopConflict(last') =>
       /\ IsAncestor(CurAfter, branches[Subject(last')], branches'[master_name])
       /\ IsAncestor(CurAfter, branches[master_name], branches'[master_name])
       /\ last'.args.tagging => tags'[versiontag_prefix \o last'.name] # 0
       /\ branches'[Subject(last')] = branches[Subject(last')]
       /\ branches[Subject(last')] # 0
       /\ branches'[develop_name] = branches[develop_name]
       /\ rrefs' = rrefs
       /\ active' = develop_name
       /\ mergehead' = branches[Subject(last')]]_vars

\* a finish with tagging has moved master, set the tag and then stopped in
\* the conflict on develop
C33_Witness ==
  /\ DevelopConflict(last)
  /\ last.args.tagging
  /\ \E i \in MergePlaces(last.log, master_name) : last.log[i][3] = "ff"
  /\ tags[versiontag_prefix \o last.name] = branches[master_name]
  /\ mergehead = branches[Subject(last)]

\* C34: after merge(name, into) has returned, `into` is the checked-out
\* head in every case: fast-forward, merge commit, and the merge that had
\* nothing to do because the branch was merged into `into` already
C34_MergeLeavesIntoCheckedOut ==
  [][(last'.op = "merge" /\ last'.res = "ok") =>
       /\ active' = last'.args.into
       /\ last'.log[Len(last'.log)] \in {"ff", "merge_commit", "noop"}]_vars

\* a merge with nothing to do, called while another head was checked out,
\* has returned
C34_Witness ==
  /\ last.op = "merge"
  /\ last.res = "ok"
  /\ last.log[Len(last.log)] = "noop"
  /\ last.changed
  /\ active = last.args.into

\* C35: pull(identifier, remote, name) while the local head prefix+name
\* exists and another head is checked out (of the same type, of another
\* type, master or develop) aborts with SystemExit and changes no ref
C35_PullIntoExistingFromElsewhereExits ==
  [][(/\ last'.op = "pull"
      /\ branches[full_name(last'.id, last'.name)] # 0
      /\ active # full_name(last'.id, last'.name))
     => (/\ last'.res = "SystemExit"
         /\ UNCHANGED <<branches, rrefs, tags, tracking, active>>)]_vars

\* a finish with tagging of a release or hotfix is called again: the tag
\* of the name exists on a commit that holds the branch's tip and that
\* master holds, and no merge is left unresolved
Retried ==
  /\ Finished(last', SingletonTypes)
  /\ last'.args.tagging
  /\ ~last'.args.push
  /\ branches[Subject(last')] # 0
  /\ tags[versiontag_prefix \o last'.name] # 0
  /\ IsAncestor(Cur, branches[Subject(last')], tags[versiontag_prefix \o last'.name])
  /\ IsAncestor(Cur, tags[versiontag_prefix \o last'.name], branches[master_name])
  /\ mergehead = 0

CreatedSingleton(l) == Created(l) /\ l.id \in SingletonTypes

\* C37: a tag comes from a finish of a release or hotfix with tagging only,
\* on master's tip and under the name versiontag_prefix+X; while it exists
\* every create(X) on the release and on the hotfix manager fails and makes
\* no head, with TagExistsError unless a head of the type exists, which is
\* answered first with BranchTypeExistsError; a finish without tagging
\* leaves the tags alone, and without the tag create(X) is never refused
\* with TagExistsError
C37_TagBlocksTheVersion ==
  [][/\ tags' # tags =>
          /\ Finished(last', SingletonTypes)
          /\ last'.args.tagging
          /\ tags' = [tags EXCEPT ![versiontag_prefix \o last'.name] =
                                     branches'[master_name]]
     /\ (CreatedSingleton(last') /\ tags[versiontag_prefix \o last'.name] # 0) =>
          /\ branches' = branches
          /\ active' = active
          /\ last'.res = IF list(Cur, last'.id) = {} THEN "TagExistsError"
                         ELSE "BranchTypeExistsError"
     /\ (Finished(last', SingletonTypes) /\ ~last'.args.tagging) => tags' = tags
     /\ (CreatedSingleton(last') /\ tags[versiontag_prefix \o last'.name] = 0) =>
          last'.res # "TagExistsError"]_vars

\* after a release or hotfix was finished with tagging, create of the same
\* version on the hotfix manager has been refused because of the tag
C37_Witness ==
  /\ Created(last)
  /\ last.id = "hotfix"
  /\ last.res = "TagExistsError"
  /\ tags[versiontag_prefix \o last.name] = branches[master_name]
  /\ list(Cur, "release") = {}
  /\ steps = MaxSteps

\* the command that just ended looked a head up by name prefix:
\* by_name_prefix itself, GitFlow.checkout, or GitFlow.finish as the
\* command line's feature finish calls it
LookedUp(l) ==
  \/ l.op \in {"by_name_prefix", "checkout"}
  \/ l.op = "run_finish" /\ l.id = "feature"

\* the head named exactly as asked exists beside another head of the type
\* whose name strictly extends it
Shadowed(l) ==
  /\ full_name(l.id, l.name) \in Heads(Cur)
  /\ \E b \in list(Cur, l.id) :
       b # full_name(l.id, l.name) /\ StartsWith(b, full_name(l.id, l.name))

\* C38: by_name_prefix gives no precedence to an exact match: while a head
\* with short name p exists beside a head of the type whose short name
\* strictly extends p, by_name_prefix(p), GitFlow.checkout(p) and
\* GitFlow.finish(p) end in PrefixNotUniqueError and leave the repository
\* as it is
C38_ExactMatchHasNoPrecedence ==
  [][(LookedUp(last') /\ Shadowed(last')) =>
       /\ last'.res = "PrefixNotUniqueError"
       /\ CurAfter = Cur]_vars

\* finish of the shorter-named feature was asked for on the command line
\* while the longer-named one existed, and was refused
C38_Witness ==
  /\ last.op = "run_finish"
  /\ last.res = "PrefixNotUniqueError"
  /\ full_name(last.id, last.name) \in Heads(Cur)
  /\ Cardinality(list(Cur, last.id)) = 2

\* C39 as stated: whenever create raises, whatever the reason, no local
\* head has been made and the checked-out head is the one from before
C39_CreateIsAllOrNothing ==
  [][(Created(last') /\ last'.res # "ok") =>
       /\ branches' = branches
       /\ active' = active]_vars

\* C39 amended: a create that raises leaves the checked-out head, the
\* commits, the tags, the remote refs and the working tree as they were;
\* it leaves the heads as they were too when a precondition failed, but a
\* create that fails because the checkout of the new head is refused
\* (GitCommandError, over local modifications) leaves the new head behind
C39_FailedCreateKeepsCheckedOutHead ==
  [][(Created(last') /\ last'.res # "ok") =>
       /\ active' = active
       /\ UNCHANGED <<parents, tags, rrefs, tracking, wd, mergehead>>
       /\ IF last'.res = "GitCommandError"
          THEN /\ branches[Subject(last')] = 0
               /\ branches'[Subject(last')] # 0
               /\ \A n \in Names \ {Subject(last')} : branches'[n] = branches[n]
               /\ wd = "dirty"
          ELSE branches' = branches]_vars

\* a create has failed at the checkout of the head it had made
C39_Witness ==
  /\ Created(last)
  /\ last.res = "GitCommandError"
  /\ branches[Subject(last)] # 0
  /\ active # Subject(last)

=============================================================================
